---- MODULE Spec2Model ----
(***************************************************************************)
(* Model of scripts/process_courses.py: the relationship-derivation engine *)
(* for course-offering records (normalisation, GTA eligibility, crosslist  *)
(* grouping and totals, conflict detection, final ordering).               *)
(*                                                                         *)
(* Text is modelled as a sequence of one-character strings, so that        *)
(* trimming, parsing, splitting, joining and comparing are computed the    *)
(* way the Python code computes them.                                      *)
(***************************************************************************)
EXTENDS Integers, Sequences, FiniteSets, TLC

(***************************************************************************)
(* Characters and generic text helpers (Python str / re / int built-ins).  *)
(***************************************************************************)

\* Characters in code-point order; used for str comparison (sorted, sort).
Ascii ==
  <<"\t", " ", "+", ",", "-", ".", "/",
    "0", "1", "2", "3", "4", "5", "6", "7", "8", "9", ":",
    "A", "B", "C", "D", "E", "F", "G", "H", "I", "J", "K", "L", "M",
    "N", "O", "P", "Q", "R", "S", "T", "U", "V", "W", "X", "Y", "Z",
    "a", "b", "c", "d", "e", "f", "g", "h", "i", "j", "k", "l", "m",
    "n", "o", "p", "q", "r", "s", "t", "u", "v", "w", "x", "y", "z",
    "²">>

CodeOf == [c \in {Ascii[i] : i \in 1..Len(Ascii)} |->
             CHOOSE i \in 1..Len(Ascii) : Ascii[i] = c]

\* ord(c), up to the characters left out of Ascii
CharCode(c) == CodeOf[c]

Whitespace == {"\t", " "}

Digit == {"0", "1", "2", "3", "4", "5", "6", "7", "8", "9"}

DigitVal(c) == CharCode(c) - CharCode("0")

UpperLetters ==
  <<"A", "B", "C", "D", "E", "F", "G", "H", "I", "J", "K", "L", "M",
    "N", "O", "P", "Q", "R", "S", "T", "U", "V", "W", "X", "Y", "Z">>

LowerLetters ==
  <<"a", "b", "c", "d", "e", "f", "g", "h", "i", "j", "k", "l", "m",
    "n", "o", "p", "q", "r", "s", "t", "u", "v", "w", "x", "y", "z">>

UpperMap == [c \in DOMAIN CodeOf |->
               IF \E i \in 1..26 : LowerLetters[i] = c
               THEN UpperLetters[CHOOSE i \in 1..26 : LowerLetters[i] = c]
               ELSE c]

LowerMap == [c \in DOMAIN CodeOf |->
               IF \E i \in 1..26 : UpperLetters[i] = c
               THEN LowerLetters[CHOOSE i \in 1..26 : UpperLetters[i] = c]
               ELSE c]

\* str.upper() on one character
UpperChar(c) == UpperMap[c]

\* str.lower() on one character
LowerChar(c) == LowerMap[c]

upper(s) == [i \in 1..Len(s) |-> UpperChar(s[i])]

lower(s) == [i \in 1..Len(s) |-> LowerChar(s[i])]

SetMin(S) == CHOOSE x \in S : \A y \in S : x <= y

SetMax(S) == CHOOSE x \in S : \A y \in S : y <= x

\* str.strip(): drop leading and trailing whitespace
RECURSIVE strip(_)
strip(s) ==
  IF s = <<>> THEN s
  ELSE IF s[1] \in Whitespace THEN strip(Tail(s))
  ELSE IF s[Len(s)] \in Whitespace THEN strip(SubSeq(s, 1, Len(s) - 1))
  ELSE s

\* value of a run of decimal digits
RECURSIVE DecVal(_)
DecVal(ds) ==
  IF ds = <<>> THEN 0
  ELSE DecVal(SubSeq(ds, 1, Len(ds) - 1)) * 10 + DigitVal(ds[Len(ds)])

\* characters str.isdigit() accepts and int() rejects (superscript digits)
OtherDigit == {"²"}

\* str.isdigit(): non-empty and every character a digit of either kind
isdigit(s) == s # <<>> /\ \A i \in 1..Len(s) : s[i] \in Digit \cup OtherDigit

\* the texts int() converts, sign and blanks aside: decimal digits only
isdecimal(s) == s # <<>> /\ \A i \in 1..Len(s) : s[i] \in Digit

\* Python str ordering: a < b lexicographically by code point
RECURSIVE StrLess(_, _)
StrLess(a, b) ==
  IF b = <<>> THEN FALSE
  ELSE IF a = <<>> THEN TRUE
  ELSE IF a[1] = b[1] THEN StrLess(Tail(a), Tail(b))
  ELSE CharCode(a[1]) < CharCode(b[1])

\* sorted(S) for a set (or the elements of a list) of strings
RECURSIVE SortedStrs(_)
SortedStrs(S) ==
  IF S = {} THEN <<>>
  ELSE LET m == CHOOSE x \in S : \A y \in S : y = x \/ StrLess(x, y)
       IN  <<m>> \o SortedStrs(S \ {m})

\* sorted(list) of strings, duplicates kept
RECURSIVE SortedList(_)
SortedList(l) ==
  IF l = <<>> THEN <<>>
  ELSE LET k == CHOOSE i \in 1..Len(l) :
                  \A j \in 1..Len(l) : ~StrLess(l[j], l[i])
           rest == [i \in 1..(Len(l) - 1) |-> IF i < k THEN l[i] ELSE l[i + 1]]
       IN  <<l[k]>> \o SortedList(rest)

\* ",".join(parts)
RECURSIVE JoinComma(_)
JoinComma(parts) ==
  IF parts = <<>> THEN <<>>
  ELSE IF Len(parts) = 1 THEN parts[1]
  ELSE parts[1] \o <<",">> \o JoinComma(Tail(parts))

\* text.split(","): the pieces between commas, empty pieces included
RECURSIVE SplitComma(_)
SplitComma(s) ==
  LET commas == {i \in 1..Len(s) : s[i] = ","}
  IN  IF commas = {} THEN <<s>>
      ELSE LET c == SetMin(commas)
           IN  <<SubSeq(s, 1, c - 1)>> \o SplitComma(SubSeq(s, c + 1, Len(s)))

Range(f) == {f[i] : i \in DOMAIN f}

\* `needle in hay` for strings
Contains(hay, needle) ==
  \E i \in 1..(Len(hay) - Len(needle) + 1) :
     SubSeq(hay, i, i + Len(needle) - 1) = needle

\* Python None / a present value
None == <<>>

Some(v) == <<v>>

(***************************************************************************)
(* Field parsers of process_courses.py                                     *)
(***************************************************************************)

\* _to_int: int(value), any failure gives 0
to_int(value) ==
  LET t == strip(value)
      signed == t # <<>> /\ t[1] \in {"+", "-"}
      body == IF signed THEN Tail(t) ELSE t
  IN  IF isdecimal(body)
      THEN IF signed /\ t[1] = "-" THEN 0 - DecVal(body) ELSE DecVal(body)
      ELSE 0

\* _course_number: re.search(r"(\d{3,})", course), first run of >= 3 digits
course_number(course) ==
  LET starts == {i \in 1..(Len(course) - 2) :
                   /\ course[i] \in Digit
                   /\ course[i + 1] \in Digit
                   /\ course[i + 2] \in Digit}
  IN  IF starts = {} THEN None
      ELSE LET b == SetMin(starts)
               e == SetMax({j \in b..Len(course) :
                              \A k \in b..j : course[k] \in Digit})
           IN  Some(DecVal(SubSeq(course, b, e)))

\* position of the first non-whitespace character at or after i (regex \s*)
SkipSpace(s, i) ==
  IF \E j \in i..Len(s) : s[j] \notin Whitespace
  THEN SetMin({j \in i..Len(s) : s[j] \notin Whitespace})
  ELSE Len(s) + 1

IsDigitAt(s, i) == i >= 1 /\ i <= Len(s) /\ s[i] \in Digit

\* an endpoint whose hour is not reduced modulo 12
to_minutes_no_mod(h, mi, ap) ==
  LET h24 == IF upper(ap) = <<"P", "M">> THEN DecVal(h) + 12 ELSE DecVal(h)
  IN  h24 * 60 + DecVal(mi)

\* to_minutes(h, mi, ap) inside _parse_time_range
to_minutes(h, mi, ap) ==
  LET h12 == DecVal(h) % 12
      h24 == IF upper(ap) = <<"P", "M">> THEN h12 + 12 ELSE h12
  IN  h24 * 60 + DecVal(mi)

\* One endpoint (\d{1,2}):(\d{2})(AM|PM) matched at position i, ignoring
\* case: <<>> if it does not match, else <<minutes, next position>>.
MatchClock(s, i) ==
  IF ~IsDigitAt(s, i) THEN <<>>
  ELSE LET n == IF IsDigitAt(s, i + 1) THEN 2 ELSE 1
           c == i + n
       IN  IF /\ c + 4 <= Len(s)
              /\ s[c] = ":"
              /\ s[c + 1] \in Digit
              /\ s[c + 2] \in Digit
              /\ upper(SubSeq(s, c + 3, c + 4)) \in {<<"A", "M">>, <<"P", "M">>}
           THEN <<to_minutes(SubSeq(s, i, c - 1), SubSeq(s, c + 1, c + 2),
                             SubSeq(s, c + 3, c + 4)),
                  c + 5>>
           ELSE <<>>

\* _parse_time_range: None, or Some(<<start, end>>) in minutes since midnight
parse_time_range(time_str) ==
  IF time_str = <<>> THEN None
  ELSE LET m1 == MatchClock(time_str, SkipSpace(time_str, 1))
       IN  IF m1 = <<>> THEN None
           ELSE LET d == SkipSpace(time_str, m1[2])
                IN  IF ~(d <= Len(time_str) /\ time_str[d] = "-") THEN None
                    ELSE LET m2 == MatchClock(time_str, SkipSpace(time_str, d + 1))
                         IN  IF m2 = <<>> THEN None
                             ELSE IF m2[1] > m1[1] THEN Some(<<m1[1], m2[1]>>)
                             ELSE None

\* re.split(r"[,\s]+", text) with the empty pieces dropped
RECURSIVE Tokens(_)
Tokens(s) ==
  LET isSep(c) == c = "," \/ c \in Whitespace
      first == {i \in 1..Len(s) : ~isSep(s[i])}
  IN  IF first = {} THEN <<>>
      ELSE LET b == SetMin(first)
               e == SetMax({j \in b..Len(s) : \A k \in b..j : ~isSep(s[k])})
           IN  <<SubSeq(s, b, e)>> \o Tokens(SubSeq(s, e + 1, Len(s)))

\* _parse_days: upper-cased tokens in their original order
parse_days(days_str) ==
  IF days_str = <<>> THEN <<>>
  ELSE LET toks == Tokens(strip(days_str))
       IN  [i \in 1..Len(toks) |-> upper(toks[i])]

\* _times_overlap with closed intervals: touching ranges overlap
times_overlap_closed(a, b) == a[1] <= b[2] /\ b[1] <= a[2]

\* _times_overlap
times_overlap(a, b) == a[1] < b[2] /\ b[1] < a[2]

(***************************************************************************)
(* Records: a row is a function from field names to values (a Python dict) *)
(***************************************************************************)

\* row.get(key, default)
get(row, key, default) == IF key \in DOMAIN row THEN row[key] ELSE default

\* row[key] = value
assign(row, key, value) ==
  [k \in (DOMAIN row) \cup {key} |-> IF k = key THEN value ELSE row[k]]

\* row.setdefault(key, value)
setdefault(row, key, value) ==
  IF key \in DOMAIN row THEN row ELSE assign(row, key, value)

\* the trimmed CRN of a row, as every stage reads it
crn_of(row) == strip(get(row, "crn", <<>>))

\* the trimmed term of a row
term_of(row) == strip(get(row, "term", <<>>))

RECURSIVE SumSeq(_)
SumSeq(s) == IF s = <<>> THEN 0 ELSE s[1] + SumSeq(Tail(s))

\* indices 1..n as a list
Indices(n) == [i \in 1..n |-> i]

(***************************************************************************)
(* Eligibility classifier                                                  *)
(***************************************************************************)

gta_tokens ==
  { <<"l", "e", "c", "t", "u", "r", "e">>,
    <<"l", "a", "b">>,
    <<"o", "n", "l", "i", "n", "e">>,
    <<"d", "i", "s", "t", "a", "n", "c", "e">> }

\* _is_gta_eligible that rejects negative seat counts only
is_gta_eligible_nonneg(row) ==
  LET seats == to_int(get(row, "seats", <<"0">>))
      ctype == lower(get(row, "course_type", <<>>))
  IN  IF seats < 0 THEN FALSE
      ELSE \E token \in gta_tokens : Contains(ctype, token)

\* _is_gta_eligible
is_gta_eligible(row) ==
  LET seats == to_int(get(row, "seats", <<"0">>))
      ctype == lower(get(row, "course_type", <<>>))
  IN  IF seats <= 0 THEN FALSE
      ELSE \E token \in gta_tokens : Contains(ctype, token)

(***************************************************************************)
(* Stage 1 of process_rows: normalized block and gta_eligible              *)
(***************************************************************************)

\* decimal text of a natural number
RECURSIVE DecText(_)
DecText(n) ==
  IF n < 10 THEN <<Ascii[CharCode("0") + n]>>
  ELSE DecText(n \div 10) \o <<Ascii[CharCode("0") + (n % 10)]>>

\* f"{n:02d}"
Format02d(n) == IF n < 10 THEN <<"0">> \o DecText(n) ELSE DecText(n)

\* f"{m//60:02d}:{m%60:02d}"
clock_24(m) == Format02d(m \div 60) \o <<":">> \o Format02d(m % 60)

RECURSIVE Concat(_)
Concat(parts) == IF parts = <<>> THEN <<>> ELSE parts[1] \o Concat(Tail(parts))

\* the "normalized" block built for one row
normalized_of(row) ==
  LET trange == parse_time_range(get(row, "time", <<>>))
      days_list == parse_days(get(row, "days", <<>>))
  IN  [time |->
         [start_24 |-> IF trange # None THEN clock_24(trange[1][1]) ELSE <<>>,
          end_24 |-> IF trange # None THEN clock_24(trange[1][2]) ELSE <<>>,
          start_minutes |-> IF trange # None THEN Some(trange[1][1]) ELSE None,
          end_minutes |-> IF trange # None THEN Some(trange[1][2]) ELSE None],
       days |-> [list |-> days_list, canonical |-> Concat(days_list)]]

\* a normalize loop that also stores the time text it has read
normalize_rows_filled(rows) ==
  [i \in 1..Len(rows) |->
     assign(assign(assign(rows[i], "time", get(rows[i], "time", <<>>)),
                   "normalized", normalized_of(rows[i])),
            "gta_eligible", is_gta_eligible(rows[i]))]

normalize_rows(rows) ==
  [i \in 1..Len(rows) |->
     assign(assign(rows[i], "normalized", normalized_of(rows[i])),
            "gta_eligible", is_gta_eligible(rows[i]))]

(***************************************************************************)
(* Stage 2: crosslist groups, lowest flag and totals                       *)
(***************************************************************************)

\* a grouping key that ignores the case of the time text
xlist_key_nocase(row) ==
  <<term_of(row),
    upper(strip(get(row, "time", <<>>))),
    strip(get(row, "days", <<>>)),
    strip(get(row, "instructor", <<>>))>>

\* the grouping key (term, time, days, instructor), each trimmed
xlist_key(row) ==
  <<term_of(row),
    strip(get(row, "time", <<>>)),
    strip(get(row, "days", <<>>)),
    strip(get(row, "instructor", <<>>))>>

\* a key guard that asks for a term and an instructor only
has_xlist_key_any_slot(row) ==
  LET key == xlist_key(row) IN key[1] # <<>> /\ key[4] # <<>>

\* `if term and time and days and instructor`
has_xlist_key(row) ==
  LET key == xlist_key(row) IN \A k \in 1..4 : key[k] # <<>>

\* xlist_groups: for every row, the indices of the rows that share its key,
\* in batch order (the empty list for a row without a key)
xlist_groups(rows) ==
  LET keys == [i \in 1..Len(rows) |->
                 IF has_xlist_key(rows[i]) THEN Some(xlist_key(rows[i])) ELSE None]
  IN  [i \in 1..Len(rows) |->
         IF keys[i] = None THEN <<>>
         ELSE SelectSeq(Indices(Len(rows)), LAMBDA j : keys[j] = keys[i])]

\* crns_in_group: the non-empty trimmed CRNs of the members, in batch order
crns_in_group(rows, indices) ==
  LET withCrn == SelectSeq(indices, LAMBDA j : crn_of(rows[j]) # <<>>)
  IN  [k \in 1..Len(withCrn) |-> crn_of(rows[withCrn[k]])]

\* total_seats / total_enrolled accumulated over the members
group_total(rows, indices, field) ==
  SumSeq([k \in 1..Len(indices) |-> to_int(get(rows[indices[k]], field, <<"0">>))])

\* max(parsed_numbers) in place of min
min_number_max(rows, indices) ==
  LET course_numbers == [k \in 1..Len(indices) |->
                           course_number(get(rows[indices[k]], "course", <<>>))]
      parsed_numbers == {course_numbers[k][1] :
                           k \in {x \in 1..Len(indices) : course_numbers[x] # None}}
  IN  IF parsed_numbers = {} THEN None ELSE Some(SetMax(parsed_numbers))

\* min(parsed_numbers) if parsed_numbers else None
min_number(rows, indices) ==
  LET course_numbers == [k \in 1..Len(indices) |->
                           course_number(get(rows[indices[k]], "course", <<>>))]
      parsed_numbers == {course_numbers[k][1] :
                           k \in {x \in 1..Len(indices) : course_numbers[x] # None}}
  IN  IF parsed_numbers = {} THEN None ELSE Some(SetMin(parsed_numbers))

\* a lowest flag that is also set on members without a course number
lower_flag_unparsed(row, minNumber) ==
  LET num == course_number(get(row, "course", <<>>))
  IN  minNumber = None \/ num = None \/ num = minNumber

\* row["lower-crosslist"] of a member of a group
lower_flag(row, minNumber) ==
  LET num == course_number(get(row, "course", <<>>))
  IN  minNumber = None \/ (num # None /\ num = minNumber)

\* the total stored on a member: the group sum, or the own value when it is 0
stored_total(row, total, field) ==
  IF total # 0 THEN total ELSE to_int(get(row, field, <<"0">>))

\* the member loop with the sibling CRNs left in batch order
annotate_member_unsorted(rows, indices, i) ==
  LET row == rows[i]
      crn == crn_of(row)
      others == SelectSeq(crns_in_group(rows, indices), LAMBDA c : c # crn)
      r1 == assign(row, "crosslist", JoinComma(others))
      r2 == assign(r1, "lower-crosslist", lower_flag(row, min_number(rows, indices)))
      r3 == assign(r2, "total_seats",
                   stored_total(row, group_total(rows, indices, "seats"), "seats"))
  IN  assign(r3, "total_enrollment",
             stored_total(row, group_total(rows, indices, "enrolled"), "enrolled"))

\* the second loop over a group: the fields written on one member
annotate_member(rows, indices, i) ==
  LET row == rows[i]
      crn == crn_of(row)
      others == SelectSeq(crns_in_group(rows, indices), LAMBDA c : c # crn)
      r1 == assign(row, "crosslist", JoinComma(SortedList(others)))
      r2 == assign(r1, "lower-crosslist", lower_flag(row, min_number(rows, indices)))
      r3 == assign(r2, "total_seats",
                   stored_total(row, group_total(rows, indices, "seats"), "seats"))
  IN  assign(r3, "total_enrollment",
             stored_total(row, group_total(rows, indices, "enrolled"), "enrolled"))

\* the loop over xlist_groups: groups with fewer than 2 members are skipped
crosslist_rows(rows) ==
  LET groups == xlist_groups(rows)
  IN  [i \in 1..Len(rows) |->
         IF Len(groups[i]) < 2 THEN rows[i]
         ELSE annotate_member(rows, groups[i], i)]

(***************************************************************************)
(* Stage 3: defaults for rows outside multi-member groups                  *)
(***************************************************************************)

default_row(row) ==
  LET r1 == setdefault(row, "crosslist", <<>>)
      r2 == setdefault(r1, "lower-crosslist", TRUE)
      r3 == setdefault(r2, "total_seats", to_int(get(row, "seats", <<"0">>)))
      r4 == setdefault(r3, "total_enrollment", to_int(get(row, "enrolled", <<"0">>)))
  IN  setdefault(r4, "conflicts", <<>>)

default_rows(rows) == [i \in 1..Len(rows) |-> default_row(rows[i])]

(***************************************************************************)
(* Stage 4: conflicts per term                                             *)
(***************************************************************************)

\* set(r.get("crosslist", "").split(",")) if r.get("crosslist") else set()
siblings(row) ==
  IF get(row, "crosslist", <<>>) # <<>>
  THEN Range(SplitComma(get(row, "crosslist", <<>>)))
  ELSE {}

\* parsed rows that take the whole batch for one term
parsed_rows_one_term(rows) ==
  [i \in 1..Len(rows) |->
     [term |-> <<>>,
      trange |-> parse_time_range(get(rows[i], "time", <<>>)),
      days |-> Range(parse_days(get(rows[i], "days", <<>>))),
      crn |-> crn_of(rows[i]),
      sib |-> siblings(rows[i])]]

\* parsed: (trange, set(days)) of every row, plus its CRN and siblings
parsed_rows(rows) ==
  [i \in 1..Len(rows) |->
     [term |-> term_of(rows[i]),
      trange |-> parse_time_range(get(rows[i], "time", <<>>)),
      days |-> Range(parse_days(get(rows[i], "days", <<>>))),
      crn |-> crn_of(rows[i]),
      sib |-> siblings(rows[i])]]

\* the pair test without the exclusion of crosslist siblings
conflict_pair_siblings(parsed, i, j) ==
  LET p1 == parsed[i]
      p2 == parsed[j]
  IN  /\ i < j
      /\ p1.term = p2.term
      /\ p1.trange # None /\ p1.days # {}
      /\ p2.trange # None /\ p2.days # {}
      /\ p1.days \cap p2.days # {}
      /\ times_overlap(p1.trange[1], p2.trange[1])
      /\ p1.crn # <<>> /\ p2.crn # <<>> /\ p1.crn # p2.crn

\* the body of the double loop for the pair i < j of one term's rows: TRUE
\* when each CRN is added to the other's conflict set
conflict_pair(parsed, i, j) ==
  LET p1 == parsed[i]
      p2 == parsed[j]
  IN  /\ i < j
      /\ p1.term = p2.term
      /\ p1.trange # None /\ p1.days # {}
      /\ p2.trange # None /\ p2.days # {}
      /\ p1.days \cap p2.days # {}
      /\ times_overlap(p1.trange[1], p2.trange[1])
      /\ ~(p2.crn \in p1.sib \/ p1.crn \in p2.sib)
      /\ p1.crn # <<>> /\ p2.crn # <<>> /\ p1.crn # p2.crn

\* conflict sets that record a pair on its first record only
conflict_set_one_way(parsed, i) ==
  {parsed[j].crn : j \in {q \in 1..Len(parsed) : conflict_pair(parsed, i, q)}}

\* conflict_sets[id(r)] for the row at index i
conflict_set(parsed, i) ==
  {parsed[j].crn : j \in {q \in 1..Len(parsed) :
                            conflict_pair(parsed, i, q) \/ conflict_pair(parsed, q, i)}}

conflict_rows(rows) ==
  LET parsed == parsed_rows(rows)
  IN  [i \in 1..Len(rows) |->
         assign(rows[i], "conflicts", JoinComma(SortedStrs(conflict_set(parsed, i))))]

(***************************************************************************)
(* Stage 5: the final ordering                                             *)
(***************************************************************************)

\* sentinel course number of a row without one
NoNumber == 1000000000

\* _section_sort_key raises ValueError: int(section) is reached through
\* section.isdigit() with a text that int() does not convert
section_key_raises(section) ==
  LET s == strip(section)
  IN  isdigit(s) /\ ~isdecimal(s)

\* _section_sort_key: <<0, int>> for all-digit sections, <<1, text>> otherwise
\* (the value it returns when it does not raise)
section_sort_key(section) ==
  LET s == strip(section)
  IN  IF isdigit(s) THEN <<0, DecVal(s)>> ELSE <<1, s>>

\* _row_sort_key
row_sort_key(row) ==
  LET num == course_number(get(row, "course", <<>>))
  IN  <<term_of(row),
        IF num # None THEN num[1] ELSE NoNumber,
        section_sort_key(get(row, "section", <<>>)),
        crn_of(row)>>

\* Python tuple comparison of two section keys
SectionLess(a, b) ==
  IF a[1] # b[1] THEN a[1] < b[1]
  ELSE IF a[1] = 0 THEN a[2] < b[2]
  ELSE StrLess(a[2], b[2])

\* Python tuple comparison a < b of two row keys
KeyLess(a, b) ==
  IF a[1] # b[1] THEN StrLess(a[1], b[1])
  ELSE IF a[2] # b[2] THEN a[2] < b[2]
  ELSE IF a[3] # b[3] THEN SectionLess(a[3], b[3])
  ELSE StrLess(a[4], b[4])

\* the order list.sort leaves: ascending by key, equal keys in their old order
RECURSIVE sorted_order(_, _)
sorted_order(keys, left) ==
  IF left = {} THEN <<>>
  ELSE LET k == CHOOSE i \in left :
                  \A j \in left \ {i} :
                     KeyLess(keys[i], keys[j]) \/ (~KeyLess(keys[j], keys[i]) /\ i < j)
       IN  <<k>> \o sorted_order(keys, left \ {k})

\* rows.sort(key=_row_sort_key) raises: the key of some row does
sort_raises(rows) ==
  \E i \in 1..Len(rows) : section_key_raises(get(rows[i], "section", <<>>))

\* a sort that also empties the conflicts of the records it moves
sort_rows_unannotated(rows) ==
  LET keys == [i \in 1..Len(rows) |-> row_sort_key(rows[i])]
      order == sorted_order(keys, 1..Len(rows))
  IN  [k \in 1..Len(rows) |->
         IF order[k] = k THEN rows[k]
         ELSE assign(rows[order[k]], "conflicts", <<>>)]

\* rows.sort(key=_row_sort_key)
sort_rows(rows) ==
  LET keys == [i \in 1..Len(rows) |-> row_sort_key(rows[i])]
      order == sorted_order(keys, 1..Len(rows))
  IN  [k \in 1..Len(rows) |-> rows[order[k]]]

\* process_rows as a function of the batch (when the sort does not raise)
process_rows(rows) ==
  sort_rows(conflict_rows(default_rows(crosslist_rows(normalize_rows(rows)))))

(***************************************************************************)
(* The per-term artifacts: compatibility matrix and GTA-eligible subset    *)
(***************************************************************************)

\* _gta_sort_key: the row key without the term
gta_sort_key(row) ==
  LET num == course_number(get(row, "course", <<>>))
  IN  <<IF num # None THEN num[1] ELSE NoNumber,
        section_sort_key(get(row, "section", <<>>)),
        crn_of(row)>>

\* Python tuple comparison a < b of two _gta_sort_key values
GtaKeyLess(a, b) ==
  IF a[1] # b[1] THEN a[1] < b[1]
  ELSE IF a[2] # b[2] THEN SectionLess(a[2], b[2])
  ELSE StrLess(a[3], b[3])

\* the order sorted(eligible, key=_gta_sort_key) returns (stable)
RECURSIVE gta_sorted_order(_, _)
gta_sorted_order(keys, left) ==
  IF left = {} THEN <<>>
  ELSE LET k == CHOOSE i \in left :
                  \A j \in left \ {i} :
                     GtaKeyLess(keys[i], keys[j])
                       \/ (~GtaKeyLess(keys[j], keys[i]) /\ i < j)
       IN  <<k>> \o gta_sorted_order(keys, left \ {k})

\* sorted(eligible, key=_gta_sort_key)
gta_sorted(eligible) ==
  LET keys == [i \in 1..Len(eligible) |-> gta_sort_key(eligible[i])]
      order == gta_sorted_order(keys, 1..Len(eligible))
  IN  [k \in 1..Len(eligible) |-> eligible[order[k]]]

\* the eligible rows, a row without a CRN included
eligible_rows_any_crn(rows) ==
  SelectSeq(rows, LAMBDA r : get(r, "gta_eligible", FALSE))

\* [r for r in rows if r.get("gta_eligible") and r.get("crn")]
eligible_rows(rows) ==
  SelectSeq(rows, LAMBDA r : get(r, "gta_eligible", FALSE)
                               /\ get(r, "crn", <<>>) # <<>>)

\* a cell that is FALSE on one side of the diagonal only
matrix_cell_one_sided(row_crn, col_crn, conflicts) ==
  IF row_crn = col_crn THEN "TRUE"
  ELSE IF col_crn \in conflicts /\ StrLess(row_crn, col_crn) THEN "FALSE"
  ELSE "TRUE"

\* one cell of the matrix, as the token written to the CSV file
matrix_cell(row_crn, col_crn, conflicts) ==
  IF row_crn = col_crn THEN "TRUE"
  ELSE IF col_crn \in conflicts THEN "FALSE"
  ELSE "TRUE"

\* conflict_map.get(crn, set()): the conflicts of the last row with this CRN
conflict_map(sorted_rows, crn) ==
  LET holders == {k \in 1..Len(sorted_rows) : crn_of(sorted_rows[k]) = crn}
  IN  IF holders = {} THEN {}
      ELSE {c \in Range(SplitComma(get(sorted_rows[SetMax(holders)],
                                       "conflicts", <<>>))) : c # <<>>}

\* write_gta_compatibility_matrix: None, or the header CRNs and the cells
\* of the file gta_compatibility_term_<term>.csv
write_gta_compatibility_matrix(term, rows) ==
  LET eligible == eligible_rows(rows)
  IN  IF eligible = <<>> THEN None
      ELSE LET sorted_rows == gta_sorted(eligible)
               crns == [k \in 1..Len(sorted_rows) |-> crn_of(sorted_rows[k])]
           IN  Some([term |-> term,
                     crns |-> crns,
                     cells |-> [i \in 1..Len(crns) |->
                                  [j \in 1..Len(crns) |->
                                     matrix_cell(crns[i], crns[j],
                                                 conflict_map(sorted_rows, crns[i]))]]])

\* max(a, b)
Max(a, b) == IF a >= b THEN a ELSE b

\* a payload entry whose crosslisted_enrollment is the plain difference
subset_entry_unclamped(r) ==
  LET enrolled == to_int(get(r, "enrolled", <<"0">>))
      total_enr == get(r, "total_enrollment", 0)
  IN  [crn |-> crn_of(r),
       course |-> get(r, "course", <<>>),
       section |-> get(r, "section", <<>>),
       title |-> get(r, "title", <<>>),
       course_type |-> get(r, "course_type", <<>>),
       meeting_dates |-> get(r, "meeting_dates", <<>>),
       time |-> get(r, "time", <<>>),
       days |-> get(r, "days", <<>>),
       hours |-> get(r, "hours", <<>>),
       room |-> get(r, "room", <<>>),
       instructor |-> get(r, "instructor", <<>>),
       seats |-> to_int(get(r, "seats", <<"0">>)),
       enrolled |-> enrolled,
       crosslisted_enrollment |-> total_enr - enrolled,
       total_enrollment |-> total_enr]

\* one entry of the payload of write_gta_subset
subset_entry(r) ==
  LET enrolled == to_int(get(r, "enrolled", <<"0">>))
      total_enr == get(r, "total_enrollment", 0)
  IN  [crn |-> crn_of(r),
       course |-> get(r, "course", <<>>),
       section |-> get(r, "section", <<>>),
       title |-> get(r, "title", <<>>),
       course_type |-> get(r, "course_type", <<>>),
       meeting_dates |-> get(r, "meeting_dates", <<>>),
       time |-> get(r, "time", <<>>),
       days |-> get(r, "days", <<>>),
       hours |-> get(r, "hours", <<>>),
       room |-> get(r, "room", <<>>),
       instructor |-> get(r, "instructor", <<>>),
       seats |-> to_int(get(r, "seats", <<"0">>)),
       enrolled |-> enrolled,
       crosslisted_enrollment |-> Max(total_enr - enrolled, 0),
       total_enrollment |-> total_enr]

\* write_gta_subset: None, or the payload of gta_eligible_term_<term>.json
write_gta_subset(term, rows) ==
  LET eligible == eligible_rows(rows)
  IN  IF eligible = <<>> THEN None
      ELSE Some([term |-> term,
                 payload |-> [k \in 1..Len(eligible) |-> subset_entry(eligible[k])]])

\* term_buckets.setdefault(term, []).append(r) for the rows of one file that
\* have a term; the buckets are kept in the order their terms first appear
RECURSIVE bucket_rows(_, _)
bucket_rows(buckets, processed) ==
  IF processed = <<>> THEN buckets
  ELSE LET r == Head(processed)
           term == term_of(r)
           known == {k \in 1..Len(buckets) : buckets[k].term = term}
           added ==
             IF term = <<>> THEN buckets
             ELSE IF known = {} THEN Append(buckets, [term |-> term, rows |-> <<r>>])
             ELSE [k \in 1..Len(buckets) |->
                     IF k \in known
                     THEN [term |-> term, rows |-> Append(buckets[k].rows, r)]
                     ELSE buckets[k]]
       IN  bucket_rows(added, Tail(processed))

(***************************************************************************)
(* validate_processed.py: the checks run on the processed records          *)
(***************************************************************************)

\* g.get(key): the value, or None for a record without the key
get_or_none(row, key) == IF key \in DOMAIN row THEN Some(row[key]) ELSE None

\* sorted([c for c in text.split(",") if c])
sorted_pieces(text) ==
  SortedList(SelectSeq(SplitComma(text), LAMBDA c : c # <<>>))

\* the errors validate_crosslist appends for the member at index i of a group
\* of the four trimmed texts (lines 75-81 build the key of xlist_key); an
\* error is written as its kind and the index of the record
member_errors(rows, indices, i) ==
  LET g == rows[i]
      crn == crn_of(g)
      crns == crns_in_group(rows, indices)
      total_seats == group_total(rows, indices, "seats")
      total_enr == group_total(rows, indices, "enrolled")
      expected == SortedList(SelectSeq(crns, LAMBDA c : c # crn))
      got == sorted_pieces(get(g, "crosslist", <<>>))
      expected_lower == lower_flag(g, min_number(rows, indices))
  IN  {e \in {<<"crosslist", i>>, <<"total_seats", i>>,
              <<"total_enrollment", i>>, <<"lower_crosslist", i>>} :
         \/ e[1] = "crosslist" /\ expected # got
         \/ e[1] = "total_seats"
              /\ get_or_none(g, "total_seats") # Some(total_seats)
         \/ e[1] = "total_enrollment"
              /\ get_or_none(g, "total_enrollment") # Some(total_enr)
         \/ e[1] = "lower_crosslist"
              /\ get_or_none(g, "lower_crosslist") # Some(expected_lower)}

validate_crosslist(rows) ==
  LET groups == xlist_groups(rows)
  IN  UNION {member_errors(rows, groups[i], i) :
               i \in {k \in 1..Len(rows) : Len(groups[k]) >= 2}}

\* lines 114-142 repeat the conflict loop of process_rows on the stored
\* crosslist; the lists are compared as sorted lists
validate_conflicts(rows) ==
  LET parsed == parsed_rows(rows)
  IN  {<<"conflicts", i>> : i \in
         {k \in 1..Len(rows) :
            sorted_pieces(get(rows[k], "conflicts", <<>>))
              # SortedStrs(conflict_set(parsed, k))}}

(***************************************************************************)
(* Input batches                                                           *)
(***************************************************************************)

\* one scraped record (fetch_courses.CourseRow), the fields the engine reads
Row(term, crn, course, section, course_type, time, days, instructor, seats, enrolled) ==
  [term |-> term, crn |-> crn, course |-> course, section |-> section,
   course_type |-> course_type, time |-> time, days |-> days,
   instructor |-> instructor, seats |-> seats, enrolled |-> enrolled]

\* the term codes of config.TERMS
Winter == DecText(202610)

Spring == DecText(202630)

\* "COMP <number>"
Comp(n) == <<"C", "O", "M", "P", " ">> \o DecText(n)

Lecture == <<"L", "e", "c", "t", "u", "r", "e">>

LectureLab == <<"L", "E", "C", "T", "U", "R", "E", "/", "L", "A", "B">>

Lab == <<"L", "a", "b">>

Seminar == <<"S", "e", "m", "i", "n", "a", "r">>

OnlineDistance ==
  <<"O", "n", "l", "i", "n", "e", "/", "D", "i", "s", "t", "a", "n", "c", "e">>

\* 10:00AM-11:50AM
Ten == <<"1", "0", ":", "0", "0", "A", "M", "-", "1", "1", ":", "5", "0", "A", "M">>

\* the same range in lower case, and with a leading blank
TenLower == lower(Ten)

TenPadded == <<" ">> \o Ten

\* 11:50AM-12:50PM starts at the minute Ten ends
Noon == <<"1", "1", ":", "5", "0", "A", "M", "-", "1", "2", ":", "5", "0", "P", "M">>

\* 11:00AM-12:30PM overlaps both Ten and Noon
Eleven == <<"1", "1", ":", "0", "0", "A", "M", "-", "1", "2", ":", "3", "0", "P", "M">>

\* 2:00PM-1:00PM ends before it starts
Backwards == <<"2", ":", "0", "0", "P", "M", "-", "1", ":", "0", "0", "P", "M">>

TBA == <<"T", "B", "A">>

MW == <<"M", "W">>

TR == <<"T", "R">>

\* "M, W" is two day tokens, "M" one of them
MCommaW == <<"M", ",", " ", "W">>

Monday == <<"M">>

Smith == <<"S", "m", "i", "t", "h", ",", " ", "J", ".">>

Jones == <<"J", "o", "n", "e", "s", ",", " ", "A", ".">>

NotANumber == <<"a", "b", "c">>

Minus(n) == <<"-">> \o DecText(n)

Empty == <<>>

\* records around one meeting slot: groups, ties, totals
PoolCrosslist ==
  { \* the lowest course number of the slot
    Row(Winter, DecText(1001), Comp(1101), DecText(1), Lecture,
        Ten, MW, Smith, DecText(30), DecText(10)),
    \* a higher course number in the same slot
    Row(Winter, DecText(1002), Comp(3101), DecText(1), Lecture,
        Ten, MW, Smith, DecText(20), DecText(5)),
    \* ties with 1001 on the course number; no seats
    Row(Winter, DecText(1003), Comp(1101), DecText(2), Lab,
        Ten, MW, Smith, DecText(0), DecText(0)),
    \* no course number (two digits only), negative counts
    Row(Winter, DecText(1004), Comp(12), <<"A">>, Lecture,
        Ten, MW, Smith, Minus(30), Minus(10)),
    \* no CRN
    Row(Winter, Empty, Comp(2370), DecText(1), Lecture,
        Ten, MW, Smith, DecText(20), DecText(5)),
    \* the slot written in lower case
    Row(Winter, DecText(999), Comp(2370), DecText(10), OnlineDistance,
        TenLower, MW, Smith, DecText(30), NotANumber),
    \* the slot with a padded time; no course number
    Row(Winter, DecText(1005), Comp(12), DecText(2), LectureLab,
        TenPadded, MW, Smith, NotANumber, DecText(5)),
    \* no instructor
    Row(Winter, DecText(1006), Comp(1101), <<"A">>, Lecture,
        Ten, MW, Empty, DecText(30), DecText(10)),
    \* the same slot and CRN in another term
    Row(Spring, DecText(1001), Comp(3101), DecText(1), Seminar,
        Ten, MW, Smith, DecText(30), DecText(10)) }

\* records whose times and days overlap or touch
PoolConflict ==
  { Row(Winter, DecText(2001), Comp(1101), DecText(1), Lecture,
        Ten, MW, Smith, DecText(30), DecText(10)),
    \* the same time and days under another instructor
    Row(Winter, DecText(2002), Comp(2370), DecText(1), Lecture,
        Ten, MW, Jones, DecText(30), DecText(10)),
    \* crosslisted with 2001
    Row(Winter, DecText(2003), Comp(3101), DecText(1), Lab,
        Ten, MW, Smith, DecText(20), DecText(5)),
    \* starts when 2001 ends
    Row(Winter, DecText(2004), Comp(2370), DecText(2), Lecture,
        Noon, MW, Jones, DecText(30), DecText(10)),
    \* overlaps both 2001 and 2004
    Row(Winter, DecText(998), Comp(3101), DecText(2), Seminar,
        Eleven, MW, Smith, DecText(30), DecText(10)),
    \* 2001's slot written in lower case
    Row(Winter, DecText(2005), Comp(1101), DecText(2), Lab,
        TenLower, lower(MW), Smith, DecText(0), DecText(0)),
    \* two day tokens
    Row(Winter, DecText(2007), Comp(2370), DecText(3), Lecture,
        Eleven, MCommaW, Jones, DecText(30), DecText(10)),
    \* one day token, shared with 2007 and with no MW record
    Row(Winter, DecText(2008), Comp(2370), DecText(4), Lab,
        Ten, Monday, Smith, DecText(0), DecText(5)),
    \* other days
    Row(Winter, DecText(2006), Comp(1101), DecText(3), Lecture,
        Ten, TR, Jones, DecText(30), DecText(10)),
    \* 2002's slot and CRN in another term
    Row(Spring, DecText(2002), Comp(2370), DecText(1), Lecture,
        Ten, MW, Jones, DecText(30), DecText(10)) }

\* records that lack a field or whose time does not parse
PoolMissing ==
  { \* a complete record
    Row(Winter, DecText(4001), Comp(1101), DecText(1), Lecture,
        Ten, MW, Jones, DecText(30), DecText(10)),
    \* overlaps 4001 under another instructor; not eligible
    Row(Winter, DecText(4008), Comp(2370), DecText(1), Seminar,
        Eleven, MW, Smith, DecText(30), DecText(10)),
    \* end before start
    Row(Winter, DecText(4002), Comp(3101), DecText(4), Lecture,
        Backwards, MW, Jones, DecText(30), DecText(10)),
    \* no days
    Row(Winter, DecText(4003), Comp(3101), DecText(5), Lecture,
        Ten, Empty, Jones, DecText(30), DecText(10)),
    \* no CRN
    Row(Winter, Empty, Comp(2370), DecText(5), Lecture,
        Ten, MW, Smith, DecText(30), DecText(10)),
    \* no term
    Row(Empty, DecText(4004), Comp(1101), DecText(5), Lecture,
        Ten, MW, Smith, DecText(30), DecText(10)),
    \* no term
    Row(Empty, DecText(4005), Comp(2370), DecText(6), Lecture,
        Eleven, MW, Jones, DecText(30), DecText(10)),
    \* no parseable time
    Row(Winter, DecText(4006), Comp(3101), DecText(3), Lecture,
        TBA, MW, Jones, DecText(30), DecText(10)),
    \* no parseable time, same slot as 4006
    Row(Winter, DecText(4007), Comp(1101), DecText(4), Lecture,
        TBA, MW, Jones, DecText(20), DecText(5)) }

\* the seat and course-type texts of PoolEligible
SeatTexts == <<DecText(0), DecText(30), NotANumber>>

TypeTexts == <<Lecture, Seminar, OnlineDistance>>

\* records that differ in seats and course type only
PoolEligible ==
  { Row(Winter, DecText(3000 + 10 * s + t), Comp(1101), DecText(1), TypeTexts[t],
        Empty, Empty, Smith, SeatTexts[s], DecText(0)) :
      s \in 1..Len(SeatTexts), t \in 1..Len(TypeTexts) }

\* largest batch
MaxRows == 3

\* CRNs are unique within a term; a record may lack one
UniqueCrns(batch) ==
  \A i, j \in 1..Len(batch) :
     (i # j /\ crn_of(batch[i]) # <<>> /\ term_of(batch[i]) = term_of(batch[j]))
       => crn_of(batch[i]) # crn_of(batch[j])

\* the batches of at most MaxRows records of a pool
RECURSIVE SeqsUpTo(_, _)
SeqsUpTo(pool, n) ==
  IF n = 0 THEN {<<>>}
  ELSE LET shorter == SeqsUpTo(pool, n - 1)
       IN  shorter \cup {Append(b, r) : b \in {x \in shorter : Len(x) = n - 1},
                                        r \in pool}

Batches(pool) == {b \in SeqsUpTo(pool, MaxRows) : UniqueCrns(b)}

\* the records of the input files of main: two terms, eligible and other
\* records that conflict or are crosslisted
PoolMain ==
  { Row(Winter, DecText(5001), Comp(1101), DecText(1), Lecture,
        Ten, MW, Smith, DecText(30), DecText(10)),
    \* overlaps 5001 and 5003 under another instructor
    Row(Winter, DecText(5002), Comp(2370), DecText(1), Lecture,
        Eleven, MW, Jones, DecText(30), DecText(10)),
    \* crosslisted with 5001
    Row(Winter, DecText(5003), Comp(3101), DecText(1), Lab,
        Ten, MW, Smith, DecText(20), DecText(5)),
    \* overlaps the three above; not eligible
    Row(Winter, DecText(5004), Comp(2370), DecText(2), Seminar,
        Ten, MW, Jones, DecText(30), DecText(10)),
    \* eligible, without a CRN
    Row(Winter, Empty, Comp(1101), DecText(2), Lecture,
        Noon, TR, Jones, DecText(30), DecText(10)),
    \* 5001 in the other term
    Row(Spring, DecText(5001), Comp(1101), DecText(1), Lecture,
        Ten, MW, Smith, DecText(30), DecText(10)),
    \* no term
    Row(Empty, DecText(5005), Comp(2370), DecText(1), Lecture,
        Ten, MW, Jones, DecText(30), DecText(10)) }

\* a course identifier with a number above the sentinel of the sort keys
CompLong == Comp(2000000000)

\* records that differ in the parts of the sort key
PoolOrder ==
  { \* numeric sections: 2 before 10
    Row(Winter, DecText(6001), Comp(1101), DecText(2), Lecture,
        Empty, Empty, Smith, DecText(30), DecText(10)),
    Row(Winter, DecText(6002), Comp(1101), DecText(10), Lecture,
        Empty, Empty, Smith, DecText(30), DecText(10)),
    \* the same course and section under two CRNs, "6003" before "999"
    Row(Winter, DecText(6003), Comp(1101), <<"A">>, Lecture,
        Empty, Empty, Smith, DecText(30), DecText(10)),
    Row(Winter, DecText(999), Comp(1101), <<"A">>, Lecture,
        Empty, Empty, Smith, DecText(30), DecText(10)),
    \* no course number (two digits only)
    Row(Winter, DecText(6004), Comp(12), DecText(1), Lecture,
        Empty, Empty, Smith, DecText(30), DecText(10)),
    \* a ten-digit course number
    Row(Winter, DecText(6005), CompLong, DecText(1), Lecture,
        Empty, Empty, Smith, DecText(30), DecText(10)),
    \* no section
    Row(Winter, DecText(6007), Comp(2370), Empty, Lecture,
        Empty, Empty, Smith, DecText(30), DecText(10)),
    \* a later term with a lower course number
    Row(Spring, DecText(6006), Comp(101), DecText(1), Lecture,
        Empty, Empty, Smith, DecText(30), DecText(10)) }

\* a section text of one superscript digit
SuperscriptTwo == <<"²">>

\* records whose texts are malformed or absent
PoolMalformed ==
  { \* a complete record
    Row(Winter, DecText(7001), Comp(1101), DecText(1), Lecture,
        Ten, MW, Smith, DecText(30), DecText(10)),
    \* nothing parses
    Row(Winter, DecText(7002), NotANumber, <<"A", "/", "1">>, TBA,
        TBA, <<",">>, Smith, NotANumber, <<"+">>),
    \* blank texts
    Row(<<" ">>, <<" ">>, <<" ">>, <<" ">>, <<" ">>,
        <<" ">>, <<" ">>, <<" ">>, <<" ">>, <<" ">>),
    \* only a CRN
    [crn |-> DecText(7003)],
    \* only a term and a seat count
    [term |-> Winter, seats |-> DecText(30)],
    \* no section, no seats, no enrolled
    [term |-> Winter, crn |-> DecText(7004), course |-> Comp(2370),
     course_type |-> Lab, time |-> Ten, days |-> MW, instructor |-> Smith],
    \* a section that is a digit to str.isdigit only
    Row(Winter, DecText(7005), Comp(3101), SuperscriptTwo, Lecture,
        Eleven, MW, Jones, DecText(30), DecText(10)) }

\* largest number of input files
MaxFiles == 2

\* the ways to cut a batch into n consecutive files (a file may be empty)
RECURSIVE SplitsInto(_, _)
SplitsInto(batch, n) ==
  IF n = 1 THEN {<<batch>>}
  ELSE UNION { {<<SubSeq(batch, 1, c)>> \o rest :
                  rest \in SplitsInto(SubSeq(batch, c + 1, Len(batch)), n - 1)} :
               c \in 0..Len(batch) }

\* the lists of input files main is run on
InputFiles(pool) ==
  UNION { SplitsInto(b, n) : b \in Batches(pool), n \in 1..MaxFiles }

(***************************************************************************)
(* The state machine: one call of process_rows, stage by stage             *)
(***************************************************************************)

VARIABLES
  input,          \* the batch as the caller supplied it
  rows,           \* the batch being annotated in place
  pc,             \* the stage process_rows has completed
  inputs,         \* main: the contents of the input files, in argument order
  input_index,    \* main: the number of input files read so far
  all_processed,  \* main: the processed rows of the files read so far
  term_buckets,   \* main: the processed rows by term
  written         \* main: the per-term artifacts written so far

vars == <<input, rows, pc, inputs, input_index, all_processed, term_buckets, written>>

\* the state of main
main_vars == <<inputs, input_index, all_processed, term_buckets, written>>

\* process_rows called on its own, outside main
NoMain ==
  /\ inputs = <<>>
  /\ input_index = 0
  /\ all_processed = <<>>
  /\ term_buckets = <<>>
  /\ written = <<>>

Init ==
  /\ input \in Batches(PoolCrosslist) \cup Batches(PoolConflict)
                 \cup Batches(PoolMissing) \cup Batches(PoolEligible)
  /\ rows = input
  /\ pc = "start"
  /\ NoMain

\* lines 195-216: normalized and gta_eligible on every row
Normalize ==
  /\ pc = "start"
  /\ rows' = normalize_rows(rows)
  /\ pc' = "normalized"
  /\ UNCHANGED <<input, main_vars>>

\* lines 218-266: crosslist, lower-crosslist and totals on grouped rows
Crosslist ==
  /\ pc = "normalized"
  /\ rows' = crosslist_rows(rows)
  /\ pc' = "crosslisted"
  /\ UNCHANGED <<input, main_vars>>

\* lines 268-275: defaults on the other rows
Defaults ==
  /\ pc = "crosslisted"
  /\ rows' = default_rows(rows)
  /\ pc' = "defaulted"
  /\ UNCHANGED <<input, main_vars>>

\* lines 277-318: conflicts on every row
Conflicts ==
  /\ pc = "defaulted"
  /\ rows' = conflict_rows(rows)
  /\ pc' = "conflicted"
  /\ UNCHANGED <<input, main_vars>>

\* lines 320-323: the sort, after which process_rows returns
\* a ValueError from a sort key leaves process_rows before it returns
Sort ==
  /\ pc = "conflicted"
  /\ IF sort_raises(rows)
     THEN rows' = rows /\ pc' = "raised"
     ELSE rows' = sort_rows(rows) /\ pc' = "done"
  /\ UNCHANGED <<input, main_vars>>

Next == Normalize \/ Crosslist \/ Defaults \/ Conflicts \/ Sort

Spec == Init /\ [][Next]_vars

\* the stages agree with process_rows as one function
TypeOK ==
  /\ pc \in {"start", "normalized", "crosslisted", "defaulted", "conflicted",
             "done", "raised", "main"}
  /\ Len(rows) = Len(input)
  /\ pc = "done" => rows = process_rows(input)

(***************************************************************************)
(* process_rows called again on what it returned                           *)
(***************************************************************************)

\* the annotated batches a first call of process_rows returns
FirstRun ==
  {process_rows(b) : b \in Batches(PoolCrosslist) \cup Batches(PoolConflict)
                            \cup Batches(PoolMissing) \cup Batches(PoolEligible)}

RerunInit ==
  /\ input \in FirstRun
  /\ rows = input
  /\ pc = "start"
  /\ NoMain

RerunSpec == RerunInit /\ [][Next]_vars

(***************************************************************************)
(* process_rows on batches made for the sort and on malformed batches      *)
(***************************************************************************)

OrderInit ==
  /\ input \in Batches(PoolOrder)
  /\ rows = input
  /\ pc = "start"
  /\ NoMain

OrderSpec == OrderInit /\ [][Next]_vars

MalformedInit ==
  /\ input \in Batches(PoolMalformed)
  /\ rows = input
  /\ pc = "start"
  /\ NoMain

MalformedSpec == MalformedInit /\ [][Next]_vars

(***************************************************************************)
(* main: process_rows on every input file, then the per-term artifacts     *)
(***************************************************************************)

MainInit ==
  /\ inputs \in InputFiles(PoolMain)
  /\ input_index = 0
  /\ all_processed = <<>>
  /\ term_buckets = <<>>
  /\ written = <<>>
  /\ input = <<>>
  /\ rows = <<>>
  /\ pc = "main"

\* lines 338-341: rows = json.loads(src.read_text()), process_rows entered
ReadFile ==
  /\ pc = "main"
  /\ input_index < Len(inputs)
  /\ input_index' = input_index + 1
  /\ input' = inputs[input_index + 1]
  /\ rows' = inputs[input_index + 1]
  /\ pc' = "start"
  /\ UNCHANGED <<inputs, all_processed, term_buckets, written>>

\* lines 342-350: the rows process_rows returned are collected and bucketed
Collect ==
  /\ pc = "done"
  /\ all_processed' = all_processed \o rows
  /\ term_buckets' = bucket_rows(term_buckets, rows)
  /\ pc' = "main"
  /\ UNCHANGED <<input, rows, inputs, input_index, written>>

\* lines 353-362: the artifacts of the next term, in the order of the buckets
WriteTerm ==
  /\ pc = "main"
  /\ input_index = Len(inputs)
  /\ Len(written) < Len(term_buckets)
  /\ LET bucket == term_buckets[Len(written) + 1]
     IN  written' =
           Append(written,
                  [term |-> bucket.term,
                   processed |-> bucket.rows,
                   matrix |-> write_gta_compatibility_matrix(bucket.term, bucket.rows),
                   subset |-> write_gta_subset(bucket.term, bucket.rows)])
  /\ UNCHANGED <<input, rows, pc, inputs, input_index, all_processed, term_buckets>>

MainNext ==
  \/ ReadFile
  \/ Normalize \/ Crosslist \/ Defaults \/ Conflicts \/ Sort
  \/ Collect
  \/ WriteTerm

MainSpec == MainInit /\ [][MainNext]_vars

\* main has written the artifacts of every term
MainDone ==
  pc = "main" /\ input_index = Len(inputs) /\ Len(written) = Len(term_buckets)

(***************************************************************************)
(* process_rows on batches that mix terms                                  *)
(***************************************************************************)

\* the same CRNs and meeting slots in two terms and without a term
PoolTerms ==
  { Row(Winter, DecText(8001), Comp(1101), DecText(1), Lecture,
        Ten, MW, Smith, DecText(30), DecText(10)),
    \* crosslisted with 8001 in the winter term
    Row(Winter, DecText(8002), Comp(3101), DecText(1), Lab,
        Ten, MW, Smith, DecText(20), DecText(5)),
    \* overlaps both under another instructor
    Row(Winter, DecText(8003), Comp(2370), DecText(1), Lecture,
        Eleven, MW, Jones, DecText(30), DecText(10)),
    \* the slot of the winter group in the spring term
    Row(Spring, DecText(8001), Comp(1101), DecText(1), Lecture,
        Ten, MW, Smith, DecText(30), DecText(10)),
    \* 8002 under another instructor in the spring term
    Row(Spring, DecText(8002), Comp(3101), DecText(1), Lab,
        Ten, MW, Jones, DecText(20), DecText(5)),
    \* crosslisted with 8001 in the spring term only
    Row(Spring, DecText(8004), Comp(2370), DecText(2), Lecture,
        Ten, MW, Smith, DecText(25), DecText(7)),
    \* two records without a term
    Row(Empty, DecText(8003), Comp(2370), DecText(1), Lecture,
        Eleven, MW, Jones, DecText(30), DecText(10)),
    Row(Empty, DecText(8005), Comp(1101), DecText(1), Lecture,
        Ten, MW, Smith, DecText(30), DecText(10)) }

TermsInit ==
  /\ input \in Batches(PoolTerms)
  /\ rows = input
  /\ pc = "start"
  /\ NoMain

TermsSpec == TermsInit /\ [][Next]_vars

(***************************************************************************)
(* main on records whose enrollment exceeds the total of their group       *)
(***************************************************************************)

\* eligible records of one slot, one of them with a negative enrollment
PoolSubset ==
  { Row(Winter, DecText(6001), Comp(1101), DecText(1), Lecture,
        Ten, MW, Smith, DecText(30), DecText(10)),
    \* with 6001 the enrollment of the group is -5
    Row(Winter, DecText(6002), Comp(3101), DecText(1), Lab,
        Ten, MW, Smith, DecText(20), Minus(15)),
    \* with 6001 the enrollment of the group is 15
    Row(Winter, DecText(6003), Comp(3102), DecText(1), Lecture,
        Ten, MW, Smith, DecText(20), DecText(5)),
    \* not eligible
    Row(Winter, DecText(6004), Comp(2370), DecText(1), Seminar,
        Eleven, MW, Jones, DecText(30), DecText(10)),
    \* an enrollment that is no number
    Row(Winter, DecText(6005), Comp(2370), DecText(2), Lecture,
        Noon, TR, Jones, DecText(30), NotANumber),
    \* 6001 in the other term
    Row(Spring, DecText(6001), Comp(1101), DecText(1), Lecture,
        Ten, MW, Smith, DecText(30), DecText(10)) }

SubsetInit ==
  /\ inputs \in InputFiles(PoolSubset)
  /\ input_index = 0
  /\ all_processed = <<>>
  /\ term_buckets = <<>>
  /\ written = <<>>
  /\ input = <<>>
  /\ rows = <<>>
  /\ pc = "main"

SubsetSpec == SubsetInit /\ [][MainNext]_vars

(***************************************************************************)
(* process_rows on one record, over the texts of the time column           *)
(***************************************************************************)

\* clock texts H:MM with AM or PM in either case, each with the hour, the
\* minute and the half of the day that it spells
Clocks ==
  { [text |-> <<"1", "2", ":", "0", "5", "A", "M">>, h |-> 12, m |-> 5, pm |-> FALSE],
    [text |-> <<"1", "2", ":", "5", "9", "A", "M">>, h |-> 12, m |-> 59, pm |-> FALSE],
    [text |-> <<"1", "2", ":", "0", "0", "P", "M">>, h |-> 12, m |-> 0, pm |-> TRUE],
    [text |-> <<"1", "2", ":", "5", "9", "P", "M">>, h |-> 12, m |-> 59, pm |-> TRUE],
    [text |-> <<"9", ":", "0", "0", "a", "m">>, h |-> 9, m |-> 0, pm |-> FALSE],
    [text |-> <<"0", "9", ":", "3", "0", "P", "m">>, h |-> 9, m |-> 30, pm |-> TRUE],
    [text |-> <<"1", ":", "1", "5", "p", "m">>, h |-> 1, m |-> 15, pm |-> TRUE],
    [text |-> <<"1", "1", ":", "5", "9", "P", "M">>, h |-> 11, m |-> 59, pm |-> TRUE],
    [text |-> <<"1", "3", ":", "0", "0", "P", "M">>, h |-> 13, m |-> 0, pm |-> TRUE],
    [text |-> <<"1", "1", ":", "7", "5", "P", "M">>, h |-> 11, m |-> 75, pm |-> TRUE] }

\* the dash between the endpoints, bare or with blanks around it
Separators == { <<"-">>, <<" ", "-", " ", " ">> }

\* the time texts made of two clock texts
ClockTexts == {a.text \o sep \o b.text : a, b \in Clocks, sep \in Separators}

\* time texts that are not two clock texts around a dash: TBA, the empty
\* text, a missing AM, a missing dash, three digits of hours, one digit of
\* minutes, a blank before AM, dots for colons, a missing second endpoint
OtherTimeTexts ==
  { <<>>,
    <<"T", "B", "A">>,
    <<"1", "0", ":", "0", "0", "-", "1", "1", ":", "5", "0", "A", "M">>,
    <<"1", "0", ":", "0", "0", "A", "M", " ", "1", "1", ":", "5", "0", "A", "M">>,
    <<"1", "0", "0", ":", "0", "0", "A", "M", "-", "1", "1", ":", "5", "0", "A", "M">>,
    <<"1", "0", ":", "0", "A", "M", "-", "1", "1", ":", "5", "0", "A", "M">>,
    <<"1", "0", ":", "0", "0", " ", "A", "M", "-", "1", "1", ":", "5", "0", " ", "A", "M">>,
    <<"1", "0", ".", "0", "0", "A", "M", "-", "1", "1", ".", "5", "0", "A", "M">>,
    <<"1", "0", ":", "0", "0", "A", "M", "-">> }

TimeInit ==
  /\ input \in {<<Row(Winter, DecText(7001), Comp(1101), DecText(1), Lecture,
                      t, MW, Smith, DecText(30), DecText(10))>> :
                  t \in ClockTexts \cup OtherTimeTexts}
  /\ rows = input
  /\ pc = "start"
  /\ NoMain

TimeSpec == TimeInit /\ [][Next]_vars

(***************************************************************************)
(* process_rows on records that carry derived fields of an earlier run     *)
(***************************************************************************)

\* a record with the five fields an earlier run has left on it
Annotated(row, crosslist, lowest, seats, enrollment, conflicts) ==
  assign(assign(assign(assign(assign(row,
    "crosslist", crosslist), "lower-crosslist", lowest), "total_seats", seats),
    "total_enrollment", enrollment), "conflicts", conflicts)

\* 9001 and 9002 were one crosslist group in conflict with 9003 when they
\* were last processed; 9002 has moved to another time and instructor since
PoolStale ==
  { Row(Winter, DecText(9001), Comp(1101), DecText(1), Lecture,
        Ten, MW, Smith, DecText(30), DecText(10)),
    Annotated(Row(Winter, DecText(9001), Comp(1101), DecText(1), Lecture,
                  Ten, MW, Smith, DecText(30), DecText(10)),
              DecText(9002), FALSE, 50, 15, DecText(9003)),
    Row(Winter, DecText(9002), Comp(3101), DecText(1), Lecture,
        Eleven, MW, Jones, DecText(20), DecText(5)),
    Annotated(Row(Winter, DecText(9002), Comp(3101), DecText(1), Lecture,
                  Eleven, MW, Jones, DecText(20), DecText(5)),
              DecText(9001), TRUE, 50, 15, DecText(9003)),
    \* in the slot of 9001
    Row(Winter, DecText(9003), Comp(2370), DecText(1), Lab,
        Ten, MW, Smith, DecText(20), DecText(5)),
    \* only the conflicts of the earlier run
    assign(Row(Winter, DecText(9004), Comp(2370), DecText(2), Lecture,
               Noon, TR, Jones, DecText(30), DecText(10)),
           "conflicts", DecText(9001)) }

StaleInit ==
  /\ input \in Batches(PoolStale)
  /\ rows = input
  /\ pc = "start"
  /\ NoMain

StaleSpec == StaleInit /\ [][Next]_vars

(***************************************************************************)
(* process_rows on every order of a batch                                  *)
(***************************************************************************)

\* records with a CRN each: a group of three, a record in conflict with the
\* group, equal course numbers and sections, two terms and no term
PoolPerm ==
  { Row(Winter, DecText(4001), Comp(1101), DecText(1), Lecture,
        Ten, MW, Smith, DecText(30), DecText(10)),
    \* the course and the section of 4001
    Row(Winter, DecText(4002), Comp(1101), DecText(1), Lab,
        Ten, MW, Smith, DecText(20), DecText(5)),
    \* the third member of the group
    Row(Winter, DecText(4003), Comp(3101), <<"A">>, Lecture,
        Ten, MW, Smith, DecText(10), DecText(2)),
    \* overlaps the group under another instructor
    Row(Winter, DecText(4004), Comp(2370), DecText(1), Lecture,
        Eleven, MW, Jones, DecText(30), DecText(10)),
    \* no course number
    Row(Winter, DecText(4005), Comp(12), DecText(2), Lecture,
        Eleven, MCommaW, Jones, DecText(30), DecText(10)),
    \* 4001 in the other term, under another instructor
    Row(Spring, DecText(4001), Comp(1101), DecText(1), Lecture,
        Ten, MW, Jones, DecText(30), DecText(10)),
    \* no term
    Row(Empty, DecText(4002), Comp(1101), DecText(1), Lecture,
        Ten, MW, Smith, DecText(30), DecText(10)) }

PermInit ==
  /\ input \in Batches(PoolPerm)
  /\ rows = input
  /\ pc = "start"
  /\ NoMain

PermSpec == PermInit /\ [][Next]_vars

(***************************************************************************)
(* Vocabulary of the properties                                            *)
(***************************************************************************)

Done == pc = "done"

Recs == 1..Len(rows)

\* the CRNs a comma-joined field lists
ListOf(text) == {c \in Range(SplitComma(text)) : c # <<>>}

Lists(a, field, b) == crn_of(rows[b]) \in ListOf(rows[a][field])

SameTerm(a, b) == term_of(rows[a]) = term_of(rows[b])

SlotFields == {"term", "time", "days", "instructor"}

\* a has the four grouping texts, and b has the same four
Grouped(a, b) ==
  \A f \in SlotFields :
     /\ strip(get(rows[a], f, <<>>)) # <<>>
     /\ strip(get(rows[a], f, <<>>)) = strip(get(rows[b], f, <<>>))

\* the crosslist group of a: empty when a lacks one of the four texts
GroupOf(a) == {b \in Recs : Grouped(a, b)}

RECURSIVE SumOver(_, _)
SumOver(S, field) ==
  IF S = {} THEN 0
  ELSE LET x == CHOOSE y \in S : TRUE
       IN  to_int(get(rows[x], field, <<>>)) + SumOver(S \ {x}, field)

NumberOf(a) == course_number(get(rows[a], "course", <<>>))

Parses(a) == rows[a]["normalized"].time.start_minutes # None

StartOf(a) == rows[a]["normalized"].time.start_minutes[1]

EndOf(a) == rows[a]["normalized"].time.end_minutes[1]

DaySet(a) == Range(rows[a]["normalized"].days.list)

\* the two meetings share a day token and a positive stretch of time
Overlapping(a, b) ==
  /\ Parses(a) /\ Parses(b)
  /\ DaySet(a) \cap DaySet(b) # {}
  /\ StartOf(a) < EndOf(b) /\ StartOf(b) < EndOf(a)

(***************************************************************************)
(* C1  crosslist symmetry                                                  *)
(***************************************************************************)

\* C1: after process_rows, for all records A and B of the same term, A's
\* crosslist lists B's CRN if and only if B's crosslist lists A's CRN.
C1_CrosslistSymmetric ==
  Done => \A a, b \in Recs :
            (a # b /\ SameTerm(a, b))
              => (Lists(a, "crosslist", b) <=> Lists(b, "crosslist", a))

(***************************************************************************)
(* C2  conflict symmetry, no own CRN                                       *)
(***************************************************************************)

\* C2: after process_rows, conflicts is symmetric within a term, and no
\* record's conflicts lists the record's own CRN.
C2_ConflictsSymmetric ==
  Done => /\ \A a, b \in Recs :
               (a # b /\ SameTerm(a, b))
                 => (Lists(a, "conflicts", b) <=> Lists(b, "conflicts", a))
          /\ \A a \in Recs : ~Lists(a, "conflicts", a)

\* two records of one term list each other as conflicts
C2_Witness ==
  Done /\ \E a, b \in Recs :
            /\ a # b /\ SameTerm(a, b)
            /\ Lists(a, "conflicts", b) /\ Lists(b, "conflicts", a)

(***************************************************************************)
(* C3  crosslist siblings are never conflicts                              *)
(***************************************************************************)

\* C3: after process_rows, if B's CRN is in A's crosslist then B's CRN is not
\* in A's conflicts and A's CRN is not in B's conflicts (same term).
C3_Exclusive ==
  Done => \A a, b \in Recs :
            (a # b /\ SameTerm(a, b) /\ Lists(a, "crosslist", b))
              => (~Lists(a, "conflicts", b) /\ ~Lists(b, "conflicts", a))

\* crosslisted records whose meetings overlap, next to a real conflict
C3_Witness ==
  Done /\ \E a, b, c \in Recs :
            /\ a # b /\ SameTerm(a, b)
            /\ Lists(a, "crosslist", b) /\ Overlapping(a, b)
            /\ Lists(a, "conflicts", c)

(***************************************************************************)
(* C4  the conflict relation                                               *)
(***************************************************************************)

C5_CrosslistExact ==
  Done => \A a \in Recs :
            LET others == SelectSeq(Indices(Len(rows)),
                            LAMBDA b : /\ b # a /\ Grouped(a, b)
                                       /\ crn_of(rows[b]) # <<>>)
            IN  rows[a]["crosslist"] =
                  JoinComma(SortedList([k \in 1..Len(others) |->
                                          crn_of(rows[others[k]])]))

\* a crosslisted pair, next to a record of the same term, days and
\* instructor whose time text differs but parses to the same range
C5_Witness ==
  Done /\ \E a, b, c \in Recs :
            /\ a # b /\ Lists(a, "crosslist", b)
            /\ c # a /\ SameTerm(a, c)
            /\ rows[a]["instructor"] = rows[c]["instructor"]
            /\ rows[a]["days"] = rows[c]["days"]
            /\ strip(rows[a]["time"]) # strip(rows[c]["time"])
            /\ Parses(a) /\ Parses(c)
            /\ StartOf(a) = StartOf(c) /\ EndOf(a) = EndOf(c)
            /\ ~Lists(a, "crosslist", c)

(***************************************************************************)
(* C6, C7  totals                                                          *)
(***************************************************************************)

\* C6: after process_rows, in every crosslist group of at least 2 members,
\* every member's total_seats is the sum of the members' integer-coerced
\* seats and its total_enrollment the sum of their enrolled counts.
C6_AggregateSound ==
  Done => \A a \in Recs :
            Cardinality(GroupOf(a)) >= 2
              => /\ rows[a]["total_seats"] = SumOver(GroupOf(a), "seats")
                 /\ rows[a]["total_enrollment"] = SumOver(GroupOf(a), "enrolled")

\* the records of a's term whose CRNs a's crosslist lists
SiblingsOf(a) ==
  {b \in Recs : b # a /\ SameTerm(a, b) /\ Lists(a, "crosslist", b)}

\* C7: after process_rows, every record's total_seats is its own seats plus
\* the seats of the records its crosslist lists, and likewise
\* total_enrollment with enrolled.
C7_TotalsFollowCrosslist ==
  Done => \A a \in Recs :
            /\ rows[a]["total_seats"] = SumOver(SiblingsOf(a) \cup {a}, "seats")
            /\ rows[a]["total_enrollment"] =
                 SumOver(SiblingsOf(a) \cup {a}, "enrolled")

(***************************************************************************)
(* C8, C9  the lowest flag                                                 *)
(***************************************************************************)

Flag(a) == rows[a]["lower-crosslist"]

HasNumber(a) == NumberOf(a) # None

\* a has the lowest course number of the set G
IsLowest(a, G) ==
  /\ HasNumber(a)
  /\ \A b \in G : HasNumber(b) => NumberOf(a)[1] <= NumberOf(b)[1]

\* C8 as stated: in a group of at least 2 with a parseable course number,
\* exactly one member is flagged and it has the lowest number; without any
\* parseable number all members are flagged.
C8_ExactlyOneLowest ==
  Done => \A a \in Recs :
            Cardinality(GroupOf(a)) >= 2
              => IF \E b \in GroupOf(a) : HasNumber(b)
                 THEN \E m \in GroupOf(a) :
                         /\ IsLowest(m, GroupOf(a)) /\ Flag(m)
                         /\ \A b \in GroupOf(a) \ {m} : ~Flag(b)
                 ELSE \A b \in GroupOf(a) : Flag(b)

\* C8 amended: in a group of at least 2 with a parseable course number, the
\* flagged members are exactly the members whose course number is the
\* group's lowest (one member, or several on a tie); without any parseable
\* number all members are flagged.
C8_LowestMembers ==
  Done => \A a \in Recs :
            Cardinality(GroupOf(a)) >= 2
              => IF \E b \in GroupOf(a) : HasNumber(b)
                 THEN \A m \in GroupOf(a) : Flag(m) <=> IsLowest(m, GroupOf(a))
                 ELSE \A b \in GroupOf(a) : Flag(b)

\* two members tie for the lowest number and are both flagged, a third
\* member of the group is not
C8_Witness ==
  Done /\ \E a, b, c \in Recs :
            /\ a # b /\ {b, c} \subseteq GroupOf(a)
            /\ HasNumber(a) /\ NumberOf(a) = NumberOf(b)
            /\ Flag(a) /\ Flag(b) /\ ~Flag(c)

\* two or more members of G share its lowest course number
TieForLowest(G) ==
  \E x, y \in G : x # y /\ IsLowest(x, G) /\ IsLowest(y, G)

\* C9 as stated: in a group where members tie for the lowest number, or
\* where some number is unparseable, every member is flagged.
C9_TiesFlagAll ==
  Done => \A a \in Recs :
            (/\ Cardinality(GroupOf(a)) >= 2
             /\ (TieForLowest(GroupOf(a)) \/ \E b \in GroupOf(a) : ~HasNumber(b)))
              => \A b \in GroupOf(a) : Flag(b)

\* C9 amended: on a tie for the lowest number the tied members are flagged
\* and the members with a higher number are not; a member without a
\* parseable number is not flagged when another member has one; every
\* member is flagged only when no member has a parseable number.
C9_TiesFlagTied ==
  Done => \A a \in Recs :
            Cardinality(GroupOf(a)) >= 2
              => /\ TieForLowest(GroupOf(a))
                      => \A b \in GroupOf(a) :
                            /\ IsLowest(b, GroupOf(a)) => Flag(b)
                            /\ (HasNumber(b) /\ ~IsLowest(b, GroupOf(a))) => ~Flag(b)
                 /\ \A b, c \in GroupOf(a) :
                       (~HasNumber(b) /\ HasNumber(c)) => ~Flag(b)
                 /\ (\A b \in GroupOf(a) : Flag(b))
                       => \/ \A b \in GroupOf(a) : ~HasNumber(b)
                          \/ \A b \in GroupOf(a) : IsLowest(b, GroupOf(a))

\* a group with a flagged member and an unflagged member that has no
\* parseable course number
C9_Witness ==
  Done /\ \E a, b \in Recs :
            /\ b \in GroupOf(a) /\ a # b
            /\ HasNumber(a) /\ Flag(a)
            /\ ~HasNumber(b) /\ ~Flag(b)

(***************************************************************************)
(* C10  eligibility                                                        *)
(***************************************************************************)

\* the seat texts of the pools that denote a positive integer, and the rest
PositiveSeats == {DecText(30), DecText(20)}

OtherSeats == {DecText(0), Minus(30), NotANumber}

\* the course types of the pools that name a lecture, lab, online or
\* distance format, and the rest
MarkedTypes == {Lecture, LectureLab, Lab, OnlineDistance}

OtherTypes == {Seminar}

\* C10: gta_eligible is true iff the seat count (non-numeric counts as 0) is
\* positive and the course type names a lecture, lab, online or distance
\* format; records with equal seats and course type have equal flags.
C10_Eligibility ==
  Done =>
    /\ \A a \in Recs :
         /\ rows[a]["seats"] \in PositiveSeats \cup OtherSeats
         /\ rows[a]["course_type"] \in MarkedTypes \cup OtherTypes
         /\ rows[a]["gta_eligible"] =
              (rows[a]["seats"] \in PositiveSeats
                 /\ rows[a]["course_type"] \in MarkedTypes)
    /\ \A a, b \in Recs :
         (/\ rows[a]["seats"] = rows[b]["seats"]
          /\ rows[a]["course_type"] = rows[b]["course_type"])
           => rows[a]["gta_eligible"] = rows[b]["gta_eligible"]

\* no seats in a lecture, seats in a seminar, seats in an online course
C10_Witness ==
  Done /\ \E a, b, c \in Recs :
            /\ rows[a]["seats"] = DecText(0) /\ rows[a]["course_type"] = Lecture
            /\ ~rows[a]["gta_eligible"]
            /\ rows[b]["seats"] = DecText(30) /\ rows[b]["course_type"] = Seminar
            /\ ~rows[b]["gta_eligible"]
            /\ rows[c]["seats"] = DecText(30)
            /\ rows[c]["course_type"] = OnlineDistance
            /\ rows[c]["gta_eligible"]

(***************************************************************************)
(* Vocabulary of the properties of main                                    *)
(***************************************************************************)

\* the terms main has written artifacts for
Written == 1..Len(written)

\* the processed records of a term, over all input files
TermRecords(term) == SelectSeq(all_processed, LAMBDA r : term_of(r) = term)

\* the scraped records of a term, over all input files
RECURSIVE TermInput(_, _)
TermInput(files, term) ==
  IF files = <<>> THEN <<>>
  ELSE SelectSeq(Head(files), LAMBDA r : term_of(r) = term)
         \o TermInput(Tail(files), term)

\* the record lists the CRN of the other in a comma-joined field
ListsRec(r, field, other) == crn_of(other) \in ListOf(r[field])

\* the record belongs in the matrix of its term
InMatrix(r) == r["gta_eligible"] /\ crn_of(r) # <<>>

\* the positions of the header that carry the CRN of the record
HeaderPlaces(m, r) == {k \in 1..Len(m.crns) : m.crns[k] = crn_of(r)}

\* two records of one term meet the crosslist condition
GroupedRecs(r, other) ==
  \A f \in SlotFields :
     /\ strip(get(r, f, <<>>)) # <<>>
     /\ strip(get(r, f, <<>>)) = strip(get(other, f, <<>>))

\* two records of one term meet the conflict condition
ConflictingRecs(r, other) ==
  LET t1 == r["normalized"].time
      t2 == other["normalized"].time
  IN  /\ crn_of(r) # <<>> /\ crn_of(other) # <<>> /\ crn_of(r) # crn_of(other)
      /\ t1.start_minutes # None /\ t2.start_minutes # None
      /\ Range(r["normalized"].days.list) \cap Range(other["normalized"].days.list) # {}
      /\ t1.start_minutes[1] < t2.end_minutes[1]
      /\ t2.start_minutes[1] < t1.end_minutes[1]
      /\ ~GroupedRecs(r, other)

(***************************************************************************)
(* C11, C12  the compatibility matrix                                      *)
(***************************************************************************)

\* C11: for every term, the compatibility matrix M written from the term's
\* processed records has M[i][j] = M[j][i] for all i, j and M[i][i] = TRUE.
C11_MatrixSymmetric ==
  \A w \in Written :
     written[w].matrix # None
       => LET m == written[w].matrix[1]
          IN  \A i, j \in 1..Len(m.crns) :
                 /\ m.cells[i][j] = m.cells[j][i]
                 /\ m.cells[i][i] = "TRUE"

\* a matrix of three CRNs with a FALSE cell and a TRUE cell off the diagonal
C11_Witness ==
  MainDone /\ \E w \in Written :
                /\ written[w].matrix # None
                /\ LET m == written[w].matrix[1]
                   IN  /\ Len(m.crns) = 3
                       /\ \E i, j \in 1..3 : m.cells[i][j] = "FALSE"
                       /\ \E i, j \in 1..3 : i # j /\ m.cells[i][j] = "TRUE"

\* C12: the matrix of a term is square; its header is exactly the CRNs of
\* the term's records that are GTA-eligible and have a CRN, each once; a cell
\* is FALSE iff the two CRNs are in each other's conflicts and TRUE
\* otherwise; no CRN of a non-eligible record is in the header.
C12_MatrixExact ==
  MainDone =>
    \A w \in Written :
       LET recs == TermRecords(written[w].term)
           members == {k \in 1..Len(recs) : InMatrix(recs[k])}
       IN  IF members = {} THEN written[w].matrix = None
           ELSE /\ written[w].matrix # None
                /\ LET m == written[w].matrix[1]
                       n == Len(m.crns)
                   IN  /\ n = Cardinality(members)
                       /\ DOMAIN m.cells = 1..n
                       /\ \A i \in 1..n : DOMAIN m.cells[i] = 1..n
                       /\ \A k \in 1..Len(recs) :
                             Cardinality(HeaderPlaces(m, recs[k])) =
                               IF k \in members THEN 1 ELSE 0
                       /\ \A a, b \in members :
                             \A i \in HeaderPlaces(m, recs[a]),
                                j \in HeaderPlaces(m, recs[b]) :
                                m.cells[i][j] =
                                  IF /\ ListsRec(recs[a], "conflicts", recs[b])
                                     /\ ListsRec(recs[b], "conflicts", recs[a])
                                  THEN "FALSE" ELSE "TRUE"

\* an eligible record conflicts with an eligible and with a non-eligible
\* record of its term: one FALSE cell, and the third CRN not in the header
C12_Witness ==
  MainDone /\ \E w \in Written :
                LET recs == TermRecords(written[w].term)
                IN  /\ written[w].matrix # None
                    /\ \E a, b, c \in 1..Len(recs) :
                          /\ InMatrix(recs[a]) /\ InMatrix(recs[b])
                          /\ ListsRec(recs[a], "conflicts", recs[b])
                          /\ ~recs[c]["gta_eligible"]
                          /\ ListsRec(recs[a], "conflicts", recs[c])
                          /\ HeaderPlaces(written[w].matrix[1], recs[c]) = {}
                          /\ \E i, j \in 1..2 :
                                written[w].matrix[1].cells[i][j] = "FALSE"

(***************************************************************************)
(* C13  relations over the records of a term                               *)
(***************************************************************************)

\* C13: in the per-term outputs of main, two records of one term that meet
\* the conflict condition list each other in conflicts, and two that meet
\* the crosslist condition list each other in crosslist, also when they
\* came from different input files.
C13_TermWide ==
  MainDone =>
    \A w \in Written :
       LET recs == written[w].processed
       IN  \A a, b \in 1..Len(recs) :
              a # b =>
                /\ ConflictingRecs(recs[a], recs[b])
                     => ListsRec(recs[a], "conflicts", recs[b])
                /\ (GroupedRecs(recs[a], recs[b]) /\ crn_of(recs[b]) # <<>>)
                     => ListsRec(recs[a], "crosslist", recs[b])

(***************************************************************************)
(* C14  idempotence                                                        *)
(***************************************************************************)

DerivedFields ==
  {"normalized", "gta_eligible", "crosslist", "lower-crosslist",
   "total_seats", "total_enrollment", "conflicts"}

\* C14: process_rows run on the output of process_rows returns the records
\* in the same order, every record with the same normalized, gta_eligible,
\* crosslist, lower-crosslist, total_seats, total_enrollment and conflicts.
C14_Idempotent ==
  Done => /\ Len(rows) = Len(input)
          /\ \A k \in Recs :
                /\ crn_of(rows[k]) = crn_of(input[k])
                /\ \A f \in DOMAIN input[k] : rows[k][f] = input[k][f]
                /\ \A f \in DerivedFields : rows[k][f] = input[k][f]

\* the second call has returned a batch with a crosslisted record that is
\* not the lowest of its group and a record in conflict with it
C14_Witness ==
  Done /\ \E a, c \in Recs :
            /\ a # c
            /\ input[a]["crosslist"] # <<>> /\ ~input[a]["lower-crosslist"]
            /\ input[c]["crosslist"] = <<>>
            /\ Lists(a, "conflicts", c) /\ Lists(c, "conflicts", a)

(***************************************************************************)
(* C15  the order of the returned list                                     *)
(***************************************************************************)

\* the section text is all digits
NumericSection(r) == isdigit(strip(get(r, "section", <<>>)))

\* r sorts strictly before q on the section: numeric sections by value and
\* before the others, the others lexically
SectionBefore(r, q) ==
  LET s == strip(get(r, "section", <<>>))
      t == strip(get(q, "section", <<>>))
  IN  IF NumericSection(r) /\ NumericSection(q) THEN DecVal(s) < DecVal(t)
      ELSE IF NumericSection(r) # NumericSection(q) THEN NumericSection(r)
      ELSE StrLess(s, t)

\* r sorts strictly before q on the course number: by value, a record
\* without a parseable number after every record with one
NumberBefore(r, q) ==
  LET n == course_number(get(r, "course", <<>>))
      m == course_number(get(q, "course", <<>>))
  IN  IF n # None /\ m # None THEN n[1] < m[1]
      ELSE n # None /\ m = None

\* r sorts strictly before q on the whole key
RecordBefore(r, q) ==
  IF term_of(r) # term_of(q) THEN StrLess(term_of(r), term_of(q))
  ELSE IF NumberBefore(r, q) \/ NumberBefore(q, r) THEN NumberBefore(r, q)
  ELSE IF SectionBefore(r, q) \/ SectionBefore(q, r) THEN SectionBefore(r, q)
  ELSE StrLess(crn_of(r), crn_of(q))

\* C15: the list process_rows returns is ascending in (term, course number
\* with the records lacking one last, section with numeric sections by
\* value before the others, CRN).
C15_Sorted ==
  Done => \A k, l \in Recs : k < l => ~RecordBefore(rows[l], rows[k])

(***************************************************************************)
(* C17  malformed values                                                   *)
(***************************************************************************)

\* C17: process_rows never raises on records whose values are arbitrary
\* texts or absent; every record is returned with all derived fields.
C17_NeverRaises ==
  /\ pc # "raised"
  /\ Done => /\ Len(rows) = Len(input)
             /\ \A k \in Recs : DerivedFields \subseteq DOMAIN rows[k]

(***************************************************************************)
(* C16  the order of the GTA-eligible subset                               *)
(***************************************************************************)

\* C16: for every term, the subset artifact lists the eligible records with
\* a CRN in ascending (course number, section, CRN) order, the CRN order of
\* the header of the term's matrix, whatever the input files.
C16_SubsetOrdered ==
  MainDone =>
    \A w \in Written :
       written[w].subset # None
         => LET payload == written[w].subset[1].payload
                keys == [k \in 1..Len(payload) |-> gta_sort_key(payload[k])]
            IN  /\ written[w].matrix # None
                /\ [k \in 1..Len(payload) |-> payload[k].crn] =
                     written[w].matrix[1].crns
                /\ \A k, l \in 1..Len(payload) :
                      k < l => ~GtaKeyLess(keys[l], keys[k])

(***************************************************************************)
(* C18, C19  records left out of the relations                             *)
(***************************************************************************)

\* the record lacks one of the four grouping texts
MissingKey(a) == \E f \in SlotFields : strip(get(rows[a], f, <<>>)) = <<>>

\* C18: a record with an empty term, time, days or instructor has an empty
\* crosslist, its own seats and enrolled as totals, lower-crosslist true,
\* and its CRN is in no other record's crosslist.
C18_MissingKeyAlone ==
  Done => \A a \in Recs :
            MissingKey(a)
              => /\ rows[a]["crosslist"] = <<>>
                 /\ rows[a]["total_seats"] = to_int(get(rows[a], "seats", <<>>))
                 /\ rows[a]["total_enrollment"] =
                      to_int(get(rows[a], "enrolled", <<>>))
                 /\ Flag(a)
                 /\ \A b \in Recs \ {a} : ~Lists(b, "crosslist", a)

\* a record without an instructor next to two crosslisted records that
\* share its term, time and days
C18_Witness ==
  Done /\ \E a, b, c \in Recs :
            /\ MissingKey(a) /\ crn_of(rows[a]) # <<>>
            /\ b # c /\ Lists(b, "crosslist", c)
            /\ \A f \in {"term", "time", "days"} : rows[a][f] = rows[b][f]
            /\ rows[a]["total_seats"] > 0
            /\ rows[b]["total_seats"] > rows[a]["total_seats"]

\* the input batch without the records that have no CRN
WithCrn == SelectSeq(input, LAMBDA r : crn_of(r) # <<>>)

RelationFields ==
  {"crosslist", "lower-crosslist", "total_seats", "total_enrollment", "conflicts"}

\* C19: a record with an empty CRN has an empty crosslist and empty
\* conflicts, and every other record has the crosslist, lower-crosslist,
\* totals and conflicts it has when the batch is processed without the
\* records that have no CRN.
C19_EmptyCrnExcluded ==
  Done =>
    LET alone == process_rows(WithCrn)
    IN  \A a \in Recs :
           IF crn_of(rows[a]) = <<>>
           THEN rows[a]["crosslist"] = <<>> /\ rows[a]["conflicts"] = <<>>
           ELSE \A k \in 1..Len(alone) :
                   (/\ crn_of(alone[k]) = crn_of(rows[a])
                    /\ term_of(alone[k]) = term_of(rows[a]))
                     => \A f \in RelationFields : alone[k][f] = rows[a][f]

(***************************************************************************)
(* C20  half-open time ranges                                              *)
(***************************************************************************)

\* largest minute of the ranges the overlap test is tried on
MaxMinute == 4

\* the ranges <<start, end>> with start < end
ClockRanges == {r \in (0..MaxMinute) \X (0..MaxMinute) : r[1] < r[2]}

\* the minutes of the half-open range [start, end)
MinutesOf(r) == {m \in 0..MaxMinute : r[1] <= m /\ m < r[2]}

\* the meeting of a ends at the minute the meeting of b starts
BackToBack(a, b) == Parses(a) /\ Parses(b) /\ EndOf(a) = StartOf(b)

OwnTerm(t) == SelectSeq(input, LAMBDA r : term_of(r) = t)

\* C21: every record returned for a batch that mixes terms is, with all its
\* derived fields, a record that process_rows returns for the records of
\* its own term alone, and every CRN in its crosslist or conflicts is the
\* CRN of a record of its term.
C21_TermsIndependent ==
  Done =>
    \A t \in {term_of(input[i]) : i \in 1..Len(input)} :
       LET alone == process_rows(OwnTerm(t))
       IN  \A a \in {x \in Recs : term_of(rows[x]) = t} :
              /\ \E k \in 1..Len(alone) : alone[k] = rows[a]
              /\ \A c \in ListOf(rows[a]["crosslist"])
                            \cup ListOf(rows[a]["conflicts"]) :
                    \E b \in Recs : SameTerm(a, b) /\ crn_of(rows[b]) = c

\* a crosslisted record without conflicts, returned with a record of
\* another term that meets at an overlapping time under another instructor
C21_Witness ==
  Done /\ \E a, b, c \in Recs :
            /\ SameTerm(a, c) /\ Lists(a, "crosslist", c)
            /\ ~SameTerm(a, b) /\ Overlapping(a, b)
            /\ strip(rows[a]["instructor"]) # strip(rows[b]["instructor"])
            /\ rows[a]["conflicts"] = <<>>
            /\ term_of(rows[a]) # <<>> /\ term_of(rows[b]) # <<>>

(***************************************************************************)
(* C22  conflicts and the texts of time and days                           *)
(***************************************************************************)

\* the time text and the days text of a and b are the same texts
SameTexts(a, b) ==
  /\ get(rows[a], "time", <<>>) = get(rows[b], "time", <<>>)
  /\ get(rows[a], "days", <<>>) = get(rows[b], "days", <<>>)

\* two records of one term with distinct CRNs
Distinct(a, b) ==
  /\ a # b /\ SameTerm(a, b)
  /\ crn_of(rows[a]) # <<>> /\ crn_of(rows[b]) # <<>>
  /\ crn_of(rows[a]) # crn_of(rows[b])

C23_ValidatorAccepts ==
  Done => /\ validate_crosslist(rows) = {}
          /\ validate_conflicts(rows) = {}

(***************************************************************************)
(* C24  the enrollment columns of the eligible subset                      *)
(***************************************************************************)

\* the entries of the subset written for the term at place w
SubsetEntries(w) ==
  IF written[w].subset = None THEN {}
  ELSE Range(written[w].subset[1].payload)

\* the entry e of the term at place w is made from the processed record r
MadeFrom(e, r) ==
  /\ r["gta_eligible"] /\ crn_of(r) = e.crn
  /\ e.enrolled = to_int(get(r, "enrolled", <<>>))
  /\ e.total_enrollment = r["total_enrollment"]

\* C24: in the subset of every term, every entry's crosslisted_enrollment is
\* total_enrollment - enrolled of its processed record when that is positive
\* and 0 otherwise, never negative, and the entry has none of the fields
\* normalized, conflicts, crosslist.
C24_SubsetEnrollment ==
  \A w \in Written : \A e \in SubsetEntries(w) :
     /\ \E r \in Range(written[w].processed) : MadeFrom(e, r)
     /\ e.crosslisted_enrollment =
          (IF e.total_enrollment - e.enrolled > 0
           THEN e.total_enrollment - e.enrolled ELSE 0)
     /\ e.crosslisted_enrollment >= 0
     /\ DOMAIN e \cap {"normalized", "conflicts", "crosslist"} = {}

\* main has written a subset with an entry enrolled above the total of its
\* group and an entry with crosslisted students
C24_Witness ==
  MainDone /\ \E w \in Written : \E e, f \in SubsetEntries(w) :
                /\ e.total_enrollment - e.enrolled < 0
                /\ e.crosslisted_enrollment = 0
                /\ f.crosslisted_enrollment > 0

(***************************************************************************)
(* C25  the time parser                                                    *)
(***************************************************************************)

\* minutes since midnight of a clock: (H mod 12) * 60 + MM, plus 720 if PM
ClockMinutes(c) == (c.h % 12) * 60 + c.m + (IF c.pm THEN 720 ELSE 0)

\* the range stored for the record of the batch: None or Some(<<start, end>>)
StoredRange ==
  LET t == rows[1]["normalized"].time
  IN  IF t.start_minutes = None /\ t.end_minutes = None THEN None
      ELSE Some(<<t.start_minutes[1], t.end_minutes[1]>>)

\* C25: for a time text made of two clocks H:MM AM/PM around a dash, in
\* either case, the parser returns ((H mod 12) * 60 + MM, plus 720 if PM) for
\* both endpoints when the end is strictly after the start and no result
\* otherwise; 12:xxAM gives 0..59 and 12:xxPM gives 720..779; a text that
\* does not match the pattern gives no result.
C25_TimeParser ==
  LET text == get(input[1], "time", <<>>)
  IN  /\ \A a, b \in Clocks, sep \in Separators :
           text = a.text \o sep \o b.text
             => /\ parse_time_range(text) =
                     (IF ClockMinutes(b) > ClockMinutes(a)
                      THEN Some(<<ClockMinutes(a), ClockMinutes(b)>>)
                      ELSE None)
                /\ pc # "start" => StoredRange = parse_time_range(text)
                /\ (a.h = 12 /\ parse_time_range(text) # None)
                     => IF a.pm
                        THEN parse_time_range(text)[1][1] \in 720..779
                        ELSE parse_time_range(text)[1][1] \in 0..59
      /\ text \in OtherTimeTexts
           => /\ parse_time_range(text) = None
              /\ pc # "start" => StoredRange = None

\* process_rows has returned the record of "12:05AM -  1:15pm" with the
\* range 5..795
C25_Witness ==
  /\ pc = "done"
  /\ get(input[1], "time", <<>>) =
       <<"1", "2", ":", "0", "5", "A", "M", " ", "-", " ", " ",
         "1", ":", "1", "5", "p", "m">>
  /\ StoredRange = Some(<<5, 795>>)

(***************************************************************************)
(* C26  the order of the stages of process_rows                            *)
(***************************************************************************)

\* the records of rows and of the next rows are the same records, as many
\* times each
Rearranged ==
  /\ Len(rows') = Len(rows)
  /\ \A k \in Recs :
        Cardinality({j \in Recs : rows'[j] = rows[k]})
          = Cardinality({j \in Recs : rows[j] = rows[k]})

\* C26: when the conflict stage starts every record has its crosslist, and
\* neither that stage nor the sort changes it; when the sort starts every
\* record has its conflicts, and the sort only rearranges the records; the
\* records process_rows has returned are collected as they are.
C26_StageOrder ==
  [][ /\ pc = "defaulted"
           => \A k \in Recs :
                 /\ "crosslist" \in DOMAIN rows[k]
                 /\ rows'[k]["crosslist"] = rows[k]["crosslist"]
      /\ pc = "conflicted"
           => /\ \A k \in Recs : "conflicts" \in DOMAIN rows[k]
              /\ Rearranged
      /\ pc = "done"
           => /\ rows' = rows
              /\ all_processed' = all_processed \o rows ]_vars

\* process_rows has returned, in another order than it was given them,
\* records with a crosslist and records with conflicts
C26_Witness ==
  /\ Done
  /\ \E k \in Recs : crn_of(rows[k]) # crn_of(input[k])
  /\ \E a, b \in Recs :
        /\ rows[a]["crosslist"] # <<>>
        /\ rows[b]["conflicts"] # <<>>

(***************************************************************************)
(* C27  derived fields that the input already carries                      *)
(***************************************************************************)

\* the record with its raw fields only
RawOf(row) == [f \in DOMAIN row \ DerivedFields |-> row[f]]

\* the batch with the raw fields only
RawBatch(batch) == [k \in 1..Len(batch) |-> RawOf(batch[k])]

\* C27: process_rows returns the derived fields it returns for the batch of
\* the same raw fields without any derived field in the input.
C27_RawFieldsOnly ==
  Done => LET clean == process_rows(RawBatch(input))
          IN  \A k \in Recs :
                 /\ crn_of(clean[k]) = crn_of(rows[k])
                 /\ \A f \in DerivedFields : rows[k][f] = clean[k][f]

(***************************************************************************)
(* C28  the order of the input                                             *)
(***************************************************************************)

\* the rearrangements of n places
Perms(n) == {p \in [1..n -> 1..n] : \A i, j \in 1..n : i # j => p[i] # p[j]}

\* the batch in the order p
Permuted(batch, p) == [k \in 1..Len(batch) |-> batch[p[k]]]

\* C28: for a batch whose records have non-empty CRNs, unique within each
\* term, process_rows returns for every rearrangement of the batch the
\* sequence of records, derived fields included, that it returns for the
\* batch.
C28_OrderIndependent ==
  (/\ Done
   /\ UniqueCrns(input)
   /\ \A k \in 1..Len(input) : crn_of(input[k]) # <<>>)
    => \A p \in Perms(Len(input)) : process_rows(Permuted(input, p)) = rows

\* process_rows has returned, in another order than it was given them, three
\* records of which one has a crosslist and conflicts
C28_Witness ==
  /\ Done /\ Len(rows) = 3
  /\ crn_of(rows[1]) # crn_of(input[1])
  /\ \E a \in Recs : rows[a]["crosslist"] # <<>> /\ rows[a]["conflicts"] # <<>>

(***************************************************************************)
(* C29  stored times are times of day                                      *)
(***************************************************************************)

\* the time block of a record is empty: no minutes and no 24-hour texts
NoTime(t) ==
  /\ t.start_minutes = None /\ t.end_minutes = None
  /\ t.start_24 = <<>> /\ t.end_24 = <<>>

\* C29: the normalized time of every record is either empty or has
\* 0 <= start_minutes < end_minutes <= 1439.
C29_TimeOfDay ==
  \A k \in Recs :
     "normalized" \in DOMAIN rows[k]
       => LET t == rows[k]["normalized"].time
          IN  \/ NoTime(t)
              \/ /\ t.start_minutes # None /\ t.end_minutes # None
                 /\ 0 <= t.start_minutes[1]
                 /\ t.start_minutes[1] < t.end_minutes[1]
                 /\ t.end_minutes[1] <= 1439

(***************************************************************************)
(* C30  the batch and its raw fields                                       *)
(***************************************************************************)

\* C30: the sequence process_rows returns is as long as the input; every
\* returned record has the seven derived fields; without them it is a
\* record of the input, with the same fields and values, and it is returned
\* as many times as the input holds it.
C30_Preserved ==
  Done =>
    /\ Len(rows) = Len(input)
    /\ \A k \in Recs :
          /\ DerivedFields \subseteq DOMAIN rows[k]
          /\ Cardinality({j \in Recs : RawOf(rows[j]) = RawOf(rows[k])})
               = Cardinality({j \in 1..Len(input) : input[j] = RawOf(rows[k])})

\* process_rows has returned, in another order than it was given them, two
\* equal records without a CRN and a record without a section
C30_Witness ==
  /\ Done /\ Len(rows) = 3
  /\ RawOf(rows[1]) # input[1]
  /\ \E a, b \in Recs : a # b /\ RawOf(rows[a]) = RawOf(rows[b])
  /\ \E c \in Recs : "section" \notin DOMAIN rows[c]

====
